---- MODULE Spec2Model ----
(***************************************************************************)
(* Model of remove_duplicate_materials.py: the material comparator         *)
(* (compare_material_properties), the node-tree comparator                 *)
(* (compare_node_trees, compare_node_properties), the duplicate grouper    *)
(* (find_duplicate_materials) and the operator                             *)
(* OBJECT_OT_remove_duplicate_materials.execute.                           *)
(*                                                                         *)
(* Scalars (alpha_threshold, colour components, metallic, specular,        *)
(* roughness) are integers in units of 0.0001, so the tolerance 0.001 of   *)
(* the source is Tol = 10.                                                 *)
(***************************************************************************)
EXTENDS Integers, Sequences, FiniteSets, TLC

VARIABLES
    \* ---- comparator harness (SpecCmp) ----
    m1, m2,             \* the two materials handed to the comparators
    res,                \* which comparators were called, and their verdicts
    \* ---- grouper harness (SpecGroup) ----
    mats,               \* the list handed to find_duplicate_materials
    groups,             \* its result: sequence of <<canonical, dupe_list>>
    gpc,                \* "in" before the call, "out" after
    \* ---- operator (Spec) ----
    selected,           \* context.selected_objects: sequence of object types
    obj_i,              \* position of the for-loop over selected_objects
    pc,                 \* position inside execute
    mode,               \* the host's interaction mode
    mode0,              \* the mode the host had when execute was called
    slots,              \* mesh.materials of the current mesh (0 is an empty slot)
    faces,              \* material_index of each face of the current mesh
    slots0, faces0,     \* slots and faces as they were when the mesh was read
    duplicates,         \* result of find_duplicate_materials for the mesh
    material_mapping,   \* duplicate index -> original index (set of pairs)
    materials_to_remove,\* set of slot indices to pop
    to_pop,             \* material_indices_to_remove not yet visited
    popped,             \* indices popped so far for the mesh, in order
    face_i,             \* position of the for-loop over bm.faces
    rewrites,           \* number of face rewrites done for the mesh
    mode_sets,          \* number of mode_set calls made for the mesh
    removed0,           \* removed_count when the mesh was read
    removed_count,
    processed_objects,
    result              \* the operator's return value, "" while running

cmpvars == <<m1, m2, res>>
grpvars == <<mats, groups, gpc>>
opvars  == <<selected, obj_i, pc, mode, mode0, slots, faces, slots0, faces0,
             duplicates, material_mapping, materials_to_remove, to_pop, popped,
             face_i, rewrites, mode_sets, removed0, removed_count, processed_objects,
             result>>
vars == <<cmpvars, grpvars, opvars>>

----------------------------------------------------------------------------
(* Bounds and program constants *)

\* 0.001 in units of 0.0001 (lines 39, 65, 71, 77, 86)
Tol == 10
\* largest offset added to a scalar attribute of the base material
MaxDelta == 11
\* number of materials in the scene's pool
NMat == 4
\* most selected objects
MaxObjects == 2
\* longest slot list and most faces of a mesh that is selected alone
MaxSlots == 3
MaxFaces == 2
\* longest slot list and most faces of a mesh selected with other objects
MaxBatchSlots == 2
MaxBatchFaces == 1

Abs(x) == IF x < 0 THEN 0 - x ELSE x

Min(a, b) == IF a < b THEN a ELSE b

\* Python 0-based index i of a sequence
At(s, i) == s[i + 1]

----------------------------------------------------------------------------
(* Node trees *)

hasattr(o, a) == a \in o.attrs

NodeAttrs == {"name", "color", "hide", "image", "interpolation"}

\* an input socket; default_value is exposed only by some sockets
Socket(v) == [attrs |-> {"default_value"}, default_value |-> v]
BareSocket == [attrs |-> {}, default_value |-> 0]

TexNode == [type |-> "TEX_IMAGE", location |-> <<0, 0>>, name |-> "Image Texture",
            attrs |-> NodeAttrs, color |-> 6, hide |-> FALSE,
            inputs |-> <<BareSocket>>, image |-> 1, interpolation |-> "Linear"]

BsdfNode == [type |-> "BSDF_PRINCIPLED", location |-> <<3, 0>>, name |-> "Principled BSDF",
             attrs |-> NodeAttrs \ {"image", "interpolation"}, color |-> 6, hide |-> FALSE,
             inputs |-> <<Socket(8), Socket(5)>>, image |-> 0, interpolation |-> ""]

OutNode == [type |-> "OUTPUT_MATERIAL", location |-> <<6, 0>>, name |-> "Material Output",
            attrs |-> NodeAttrs \ {"image", "interpolation"}, color |-> 6, hide |-> FALSE,
            inputs |-> <<BareSocket>>, image |-> 0, interpolation |-> ""]

\* a link names its end nodes by their position in the tree's node list
Link(f, fs, t, ts) == [from_node |-> f, from_socket |-> fs, to_node |-> t, to_socket |-> ts]

NoneTree == [none |-> TRUE, nodes |-> <<>>, links |-> <<>>]
Tree(ns, ls) == [none |-> FALSE, nodes |-> ns, links |-> ls]

BaseTree == Tree(<<TexNode, BsdfNode, OutNode>>,
                 <<Link(1, "Color", 2, "Base Color"), Link(2, "BSDF", 3, "Surface")>>)

\* the node trees the comparators are tried on: the base tree and trees that
\* differ from it in one node's type, position, name, colour, hidden flag,
\* socket default, image or interpolation, in a link, or in the counts
TreeUniverse ==
    LET n2(nd) == Tree(<<TexNode, nd, OutNode>>, BaseTree.links)
        n1(nd) == Tree(<<nd, BsdfNode, OutNode>>, BaseTree.links)
        l2(ls) == Tree(BaseTree.nodes, ls)
    IN  { NoneTree, BaseTree,
          Tree(<<OutNode, BsdfNode, TexNode>>,
               <<Link(2, "BSDF", 1, "Surface"), Link(3, "Color", 2, "Base Color")>>),
          n2([BsdfNode EXCEPT !.type = "BSDF_DIFFUSE"]),
          n2([BsdfNode EXCEPT !.location = <<3, 1>>]),
          n2([BsdfNode EXCEPT !.name = "Principled BSDF.001"]),
          n2([BsdfNode EXCEPT !.color = 7]),
          n2([BsdfNode EXCEPT !.hide = TRUE]),
          n2([BsdfNode EXCEPT !.attrs = @ \ {"hide"}, !.hide = TRUE]),
          n2([BsdfNode EXCEPT !.inputs = <<Socket(8), Socket(4)>>]),
          n2([BsdfNode EXCEPT !.inputs = <<Socket(8), [BareSocket EXCEPT !.default_value = 4]>>]),
          n2([BsdfNode EXCEPT !.inputs = <<Socket(8)>>]),
          n1([TexNode EXCEPT !.image = 2]),
          n1([TexNode EXCEPT !.interpolation = "Closest"]),
          n1([TexNode EXCEPT !.attrs = @ \ {"image"}, !.image = 2]),
          n1([OutNode EXCEPT !.inputs = <<Socket(1)>>]),
          n1([BsdfNode EXCEPT !.inputs = <<Socket(8), Socket(4)>>]),
          l2(<<Link(1, "Alpha", 2, "Base Color"), Link(2, "BSDF", 3, "Surface")>>),
          l2(<<Link(1, "Color", 2, "Roughness"), Link(2, "BSDF", 3, "Surface")>>),
          l2(<<Link(1, "Color", 2, "Base Color"), Link(1, "Color", 2, "Base Color")>>),
          l2(<<Link(2, "BSDF", 3, "Surface"), Link(2, "BSDF", 3, "Surface")>>),
          l2(<<Link(1, "Color", 2, "Base Color")>>),
          l2(<<Link(1, "Color", 2, "Base Color"), Link(2, "BSDF", 3, "Surface"),
               Link(1, "Alpha", 2, "Alpha")>>),
          Tree(<<TexNode, BsdfNode>>,
               <<Link(1, "Color", 2, "Base Color"), Link(1, "Alpha", 2, "Alpha")>>),
          Tree(<<TexNode, BsdfNode, OutNode, [OutNode EXCEPT !.location = <<6, 2>>]>>,
               BaseTree.links) }

\* lines 143, 149: the key a node is filed under
node_key(node) ==
    <<node.type, node.location, IF hasattr(node, "name") THEN node.name ELSE "">>

\* lines 170-173, 177-180: the key of a link
link_key(tree, link) ==
    << <<tree.nodes[link.from_node].type, tree.nodes[link.from_node].location,
         link.from_socket>>,
       <<tree.nodes[link.to_node].type, tree.nodes[link.to_node].location,
         link.to_socket>> >>

\* lines 142-146, 148-152: filing the nodes meets no key twice
keys_unique(tree) ==
    \A i, j \in DOMAIN tree.nodes :
        i # j => node_key(tree.nodes[i]) # node_key(tree.nodes[j])

\* lines 169-181: the set of link keys of a tree
link_set(tree) == { link_key(tree, tree.links[i]) : i \in DOMAIN tree.links }

\* lines 186-221
compare_node_properties(node1, node2) ==
    IF node1.type # node2.type THEN FALSE
    ELSE IF hasattr(node1, "color") /\ hasattr(node2, "color")
            /\ node1.color # node2.color THEN FALSE
    ELSE IF hasattr(node1, "hide") /\ hasattr(node2, "hide")
            /\ node1.hide # node2.hide THEN FALSE
    ELSE IF node1.type = "BSDF_PRINCIPLED" THEN
        \A k \in 1..Min(Len(node1.inputs), Len(node2.inputs)) :
            (hasattr(node1.inputs[k], "default_value")
             /\ hasattr(node2.inputs[k], "default_value"))
                => node1.inputs[k].default_value = node2.inputs[k].default_value
    ELSE IF node1.type = "TEX_IMAGE" THEN
        /\ (hasattr(node1, "image") /\ hasattr(node2, "image"))
              => node1.image = node2.image
        /\ (hasattr(node1, "interpolation") /\ hasattr(node2, "interpolation"))
              => node1.interpolation = node2.interpolation
    ELSE TRUE

\* lines 122-183
compare_node_trees(tree1, tree2) ==
    IF tree1.none \/ tree2.none THEN tree1.none /\ tree2.none
    ELSE IF Len(tree1.nodes) # Len(tree2.nodes) THEN FALSE
    ELSE IF Len(tree1.links) # Len(tree2.links) THEN FALSE
    ELSE IF ~keys_unique(tree1) \/ ~keys_unique(tree2) THEN FALSE
    ELSE IF \E i \in DOMAIN tree1.nodes :
               \/ \A j \in DOMAIN tree2.nodes :
                     node_key(tree2.nodes[j]) # node_key(tree1.nodes[i])
               \/ \E j \in DOMAIN tree2.nodes :
                     /\ node_key(tree2.nodes[j]) = node_key(tree1.nodes[i])
                     /\ ~compare_node_properties(tree1.nodes[i], tree2.nodes[j])
         THEN FALSE
    ELSE link_set(tree1) = link_set(tree2)

----------------------------------------------------------------------------
(* Materials *)

MaterialAttrs == {"blend_method", "alpha_threshold", "show_transparent_back",
                  "use_backface_culling", "diffuse_color", "metallic", "specular",
                  "roughness"}

\* A material is a record; id is its identity (0: None).  use_nodes and
\* node_tree are read outside any try block (lines 96-114) and are always
\* there; the attributes named in attrs are the ones the object exposes.
BaseMaterial ==
    [id |-> 1, attrs |-> MaterialAttrs,
     use_nodes |-> FALSE, blend_method |-> "OPAQUE", alpha_threshold |-> 5000,
     show_transparent_back |-> TRUE, use_backface_culling |-> FALSE,
     diffuse_color |-> <<8000, 8000, 8000, 10000>>,
     metallic |-> 0, specular |-> 5000, roughness |-> 4000,
     node_tree |-> NoneTree]

NoneMaterial == [BaseMaterial EXCEPT !.id = 0]

\* line 23: mat is None
IsNone(mat) == mat.id = 0

both(mat1, mat2, a) == hasattr(mat1, a) /\ hasattr(mat2, a)

\* the comparison with >= in place of >
exceeds_tolerance_ge(x, y) == Abs(x - y) >= Tol

\* lines 39, 65, 71, 77, 86: abs(x - y) > 0.001
exceeds_tolerance(x, y) == Abs(x - y) > Tol

\* lines 32-51: TRUE when the block returns False.  Reading an attribute one
\* side does not expose raises AttributeError, which ends the block (pass).
basic_properties_differ(mat1, mat2) ==
    IF mat1.use_nodes # mat2.use_nodes THEN TRUE
    ELSE IF ~both(mat1, mat2, "blend_method") THEN FALSE
    ELSE IF mat1.blend_method # mat2.blend_method THEN TRUE
    ELSE IF ~both(mat1, mat2, "alpha_threshold") THEN FALSE
    ELSE IF exceeds_tolerance(mat1.alpha_threshold, mat2.alpha_threshold) THEN TRUE
    ELSE IF ~both(mat1, mat2, "show_transparent_back") THEN FALSE
    ELSE IF mat1.show_transparent_back # mat2.show_transparent_back THEN TRUE
    ELSE IF ~both(mat1, mat2, "use_backface_culling") THEN FALSE
    ELSE mat1.use_backface_culling # mat2.use_backface_culling

\* lines 56-67: TRUE when the colour check returns False
diffuse_color_differs(mat1, mat2) ==
    IF Len(mat1.diffuse_color) # Len(mat2.diffuse_color) THEN TRUE
    ELSE \E k \in DOMAIN mat1.diffuse_color :
            exceeds_tolerance(mat1.diffuse_color[k], mat2.diffuse_color[k])

\* lines 70-73
metallic_differs(mat1, mat2) ==
    both(mat1, mat2, "metallic") /\ exceeds_tolerance(mat1.metallic, mat2.metallic)

\* the presence check made for the first material only
specular_differs_one_sided(mat1, mat2) ==
    IF both(mat1, mat2, "specular")
    THEN exceeds_tolerance(mat1.specular, mat2.specular)
    ELSE hasattr(mat1, "specular") /\ ~hasattr(mat2, "specular")

\* lines 76-82
specular_differs(mat1, mat2) ==
    IF both(mat1, mat2, "specular")
    THEN exceeds_tolerance(mat1.specular, mat2.specular)
    ELSE hasattr(mat1, "specular") # hasattr(mat2, "specular")

\* lines 85-88
roughness_differs(mat1, mat2) ==
    both(mat1, mat2, "roughness") /\ exceeds_tolerance(mat1.roughness, mat2.roughness)

\* lines 54-93: TRUE when the block returns False; a missing diffuse_color
\* raises AttributeError on line 56 or 57 and skips the whole block
surface_properties_differ(mat1, mat2) ==
    IF ~both(mat1, mat2, "diffuse_color") THEN FALSE
    ELSE \/ diffuse_color_differs(mat1, mat2)
         \/ metallic_differs(mat1, mat2)
         \/ specular_differs(mat1, mat2)
         \/ roughness_differs(mat1, mat2)

\* the link counts left out
node_trees_similar_nodes_only(tree1, tree2) ==
    Len(tree1.nodes) = Len(tree2.nodes)

\* lines 102-109: the "simpler node tree comparison"
node_trees_similar(tree1, tree2) ==
    /\ Len(tree1.nodes) = Len(tree2.nodes)
    /\ Len(tree1.links) = Len(tree2.links)

\* lines 95-119: the verdict once the attribute blocks have passed
node_check(mat1, mat2) ==
    IF mat1.use_nodes /\ mat2.use_nodes THEN
        IF mat1.node_tree.none \/ mat2.node_tree.none
        THEN mat1.node_tree.none /\ mat2.node_tree.none
        ELSE node_trees_similar(mat1.node_tree, mat2.node_tree)
    ELSE IF mat1.use_nodes # mat2.use_nodes THEN FALSE
    ELSE TRUE

\* lines 16-119
compare_material_properties(mat1, mat2) ==
    IF IsNone(mat1) \/ IsNone(mat2) THEN FALSE
    ELSE IF mat1.id = mat2.id THEN FALSE
    ELSE IF basic_properties_differ(mat1, mat2) THEN FALSE
    ELSE IF surface_properties_differ(mat1, mat2) THEN FALSE
    ELSE node_check(mat1, mat2)

----------------------------------------------------------------------------
(* Comparator harness: two materials drawn from a universe of one-attribute *)
(* variations of the base material, then the comparators are called.        *)

Deltas == 0..MaxDelta

ScalarAttrs == {"alpha_threshold", "metallic", "specular", "roughness"}

\* mat with scalar attribute a raised by d
Bump(mat, a, d) ==
    CASE a = "alpha_threshold" -> [mat EXCEPT !.alpha_threshold = @ + d]
      [] a = "metallic"        -> [mat EXCEPT !.metallic = @ + d]
      [] a = "specular"        -> [mat EXCEPT !.specular = @ + d]
      [] a = "roughness"       -> [mat EXCEPT !.roughness = @ + d]

Variations(b) ==
    {b}
    \cup { Bump(b, a, d) : a \in ScalarAttrs, d \in Deltas }
    \cup { [b EXCEPT !.diffuse_color[k] = @ + d] : k \in DOMAIN b.diffuse_color, d \in Deltas }
    \cup { [b EXCEPT !.diffuse_color = <<8000, 8000, 8000>>],
           [b EXCEPT !.blend_method = "BLEND"],
           [b EXCEPT !.show_transparent_back = FALSE],
           [b EXCEPT !.use_backface_culling = TRUE] }
    \cup { [b EXCEPT !.attrs = @ \ {a}] : a \in MaterialAttrs }
    \cup { [b EXCEPT !.attrs = @ \ {"metallic"}, !.metallic = 700],
           [b EXCEPT !.attrs = @ \ {"specular"}, !.specular = 700],
           [b EXCEPT !.attrs = @ \ {"roughness"}, !.roughness = 700],
           [b EXCEPT !.attrs = @ \ {"blend_method"}, !.blend_method = "BLEND"],
           [b EXCEPT !.attrs = @ \ {"blend_method"}, !.use_backface_culling = TRUE],
           [b EXCEPT !.attrs = @ \ {"diffuse_color"}, !.roughness = 700] }
    \cup { [b EXCEPT !.use_nodes = TRUE, !.node_tree = t] : t \in TreeUniverse }
    \cup { [b EXCEPT !.node_tree = BaseTree] }

MaterialUniverse(i) == Variations([BaseMaterial EXCEPT !.id = i])

NoCalls == [done |-> {}, eq |-> FALSE, eq_rev |-> FALSE, trees |-> FALSE, trees_rev |-> FALSE]

InitCmp ==
    /\ m1 \in MaterialUniverse(1) \cup {NoneMaterial}
    /\ m2 \in MaterialUniverse(2) \cup {NoneMaterial, m1}
    /\ res = NoCalls

\* compare_material_properties is called on the pair, in both orders
CallCompareMaterials ==
    /\ "materials" \notin res.done
    /\ res' = [res EXCEPT !.done = @ \cup {"materials"},
                          !.eq = compare_material_properties(m1, m2),
                          !.eq_rev = compare_material_properties(m2, m1)]
    /\ UNCHANGED <<m1, m2, grpvars, opvars>>

\* compare_node_trees is called on the two materials' node trees
CallCompareNodeTrees ==
    /\ "trees" \notin res.done
    /\ res' = [res EXCEPT !.done = @ \cup {"trees"},
                          !.trees = compare_node_trees(m1.node_tree, m2.node_tree),
                          !.trees_rev = compare_node_trees(m2.node_tree, m1.node_tree)]
    /\ UNCHANGED <<m1, m2, grpvars, opvars>>

CmpNext == CallCompareMaterials \/ CallCompareNodeTrees

----------------------------------------------------------------------------
(* Duplicate grouper *)

\* The scene's materials: material i is the base material with
\* alpha_threshold raised by (i - 1) * 0.0005, so that neighbours are equal
\* within the tolerance and materials three apart are not.
Mat(i) ==
    IF i = 0 THEN NoneMaterial
    ELSE [BaseMaterial EXCEPT !.id = i, !.alpha_threshold = @ + (i - 1) * (Tol \div 2)]

MatIds == 1..NMat

\* materials are handled by identity
materials_equal(a, b) == compare_material_properties(Mat(a), Mat(b))

\* the material is not recorded
processed_add_dropped(processed, mat) == processed

\* lines 252, 257: processed.add(mat)
processed_add(processed, mat) == processed \cup {mat}

\* the duplicate put in front
list_prepend(l, x) == <<x>> \o l

\* line 251: mat_duplicates.append(mat2)
list_append(l, x) == Append(l, x)

\* line 256: duplicates[mat1] = mat_duplicates on an insertion-ordered dict,
\* held as a sequence of <<key, value>>
dict_set(d, k, v) ==
    IF \E n \in DOMAIN d : d[n][1] = k
    THEN [n \in DOMAIN d |-> IF d[n][1] = k THEN <<k, v>> ELSE d[n]]
    ELSE Append(d, <<k, v>>)

\* lines 243-252: the inner loop from position j on; yields
\* <<mat_duplicates, processed>>
RECURSIVE inner_loop(_, _, _, _, _)
inner_loop(materials, mat1, j, mat_duplicates, processed) ==
    IF j > Len(materials) THEN <<mat_duplicates, processed>>
    ELSE LET mat2 == materials[j]
         IN  IF mat2 \in processed
             THEN inner_loop(materials, mat1, j + 1, mat_duplicates, processed)
             ELSE IF materials_equal(mat1, mat2)
             THEN inner_loop(materials, mat1, j + 1, list_append(mat_duplicates, mat2),
                             processed_add(processed, mat2))
             ELSE inner_loop(materials, mat1, j + 1, mat_duplicates, processed)

\* lines 236-257: the outer loop from position i on
RECURSIVE outer_loop(_, _, _, _)
outer_loop(materials, i, dups, processed) ==
    IF i > Len(materials) THEN dups
    ELSE LET mat1 == materials[i]
         IN  IF mat1 \in processed
             THEN outer_loop(materials, i + 1, dups, processed)
             ELSE LET r == inner_loop(materials, mat1, i + 1, <<>>, processed)
                  IN  IF r[1] # <<>>
                      THEN outer_loop(materials, i + 1, dict_set(dups, mat1, r[1]),
                                      processed_add(r[2], mat1))
                      ELSE outer_loop(materials, i + 1, dups, r[2])

\* lines 224-260
find_duplicate_materials(materials) == outer_loop(materials, 1, <<>>, {})

\* sequences over S of length at most n
RECURSIVE SeqsUpTo(_, _)
SeqsUpTo(S, n) ==
    IF n = 0 THEN {<<>>}
    ELSE LET shorter == SeqsUpTo(S, n - 1)
         IN  shorter \cup { Append(q, x) : q \in {t \in shorter : Len(t) = n - 1}, x \in S }

\* longest list handed to the grouper on its own
MaxList == 4

InitGroup ==
    /\ mats \in SeqsUpTo(0..NMat, MaxList)
    /\ groups = <<>>
    /\ gpc = "in"

CallFindDuplicates ==
    /\ gpc = "in"
    /\ groups' = find_duplicate_materials(mats)
    /\ gpc' = "out"
    /\ UNCHANGED <<mats, cmpvars, opvars>>

----------------------------------------------------------------------------
(* The operator: OBJECT_OT_remove_duplicate_materials.execute *)

ObjectTypes == {"MESH", "EMPTY"}
Modes == {"OBJECT", "EDIT"}

\* slot lists a mesh may carry (0 is an empty slot) and, for a slot list, the
\* face material indices in its range (index 0 when there is no slot); n is
\* the number of selected objects
SlotLists(n) == SeqsUpTo(0..NMat, IF n = 1 THEN MaxSlots ELSE MaxBatchSlots)
FaceLists(sl, n) ==
    SeqsUpTo(IF Len(sl) = 0 THEN {0} ELSE 0..(Len(sl) - 1),
             IF n = 1 THEN MaxFaces ELSE MaxBatchFaces)

\* line 329: [mat for mat in mesh.materials if mat is not None]
RECURSIVE non_none(_)
non_none(sl) ==
    IF sl = <<>> THEN <<>>
    ELSE IF Head(sl) = 0 THEN non_none(Tail(sl))
    ELSE <<Head(sl)>> \o non_none(Tail(sl))

\* lines 360-363, 371-374: the first slot holding mat, 0-based; -1 when none does
first_index(sl, mat) ==
    IF \E n \in DOMAIN sl : sl[n] = mat
    THEN (CHOOSE n \in DOMAIN sl : sl[n] = mat /\ \A k \in 1..(n - 1) : sl[k] # mat) - 1
    ELSE -1

\* lines 377-378: material_mapping[duplicate_idx] = original_idx and
\* materials_to_remove.add(duplicate_idx); the state is <<mapping, to_remove>>
map_add(st, duplicate_idx, original_idx) ==
    << [k \in DOMAIN st[1] \cup {duplicate_idx} |->
           IF k = duplicate_idx THEN original_idx ELSE st[1][k]],
       st[2] \cup {duplicate_idx} >>

\* lines 369-378: the loop over one dupe_list from position n on
RECURSIVE map_dupes(_, _, _, _, _)
map_dupes(sl, original_idx, dupe_list, n, st) ==
    IF n > Len(dupe_list) THEN st
    ELSE LET duplicate_idx == first_index(sl, dupe_list[n])
         IN  map_dupes(sl, original_idx, dupe_list, n + 1,
                       IF duplicate_idx # -1
                       THEN map_add(st, duplicate_idx, original_idx)
                       ELSE st)

\* lines 358-378: the loop over duplicates.items() from position n on
RECURSIVE map_groups(_, _, _, _)
map_groups(sl, dups, n, st) ==
    IF n > Len(dups) THEN st
    ELSE LET original_idx == first_index(sl, dups[n][1])
         IN  map_groups(sl, dups, n + 1,
                        IF original_idx = -1 THEN st
                        ELSE map_dupes(sl, original_idx, dups[n][2], 1, st))

\* lines 355-378: <<material_mapping, materials_to_remove>>
build_mapping(sl, dups) == map_groups(sl, dups, 1, << <<>>, {} >>)

\* the face left as it is
rewrite_index_skipped(mapping, f) == f

\* lines 396-397: the index a face carries after the rewrite
rewrite_index(mapping, f) == IF f \in DOMAIN mapping THEN mapping[f] ELSE f

\* the indices sorted lowest first
RECURSIVE sorted_ascending(_)
sorted_ascending(S) ==
    IF S = {} THEN <<>>
    ELSE LET low == CHOOSE x \in S : \A y \in S : x <= y
         IN  <<low>> \o sorted_ascending(S \ {low})

\* line 404: sorted(materials_to_remove, reverse=True)
RECURSIVE sorted_reverse(_)
sorted_reverse(S) ==
    IF S = {} THEN <<>>
    ELSE LET top == CHOOSE x \in S : \A y \in S : y <= x
         IN  <<top>> \o sorted_reverse(S \ {top})

\* line 407: mesh.materials.pop(index=idx), the slot list without slot idx
materials_pop(sl, idx) == SubSeq(sl, 1, idx) \o SubSeq(sl, idx + 2, Len(sl))

\* The host's part of removing a slot: faces that pointed at or above the
\* removed slot move down by one, so that they keep pointing at the slot
\* they pointed at (the compaction "adjusting all positional references
\* that shift as a result").
material_index_remove(fc, idx) ==
    [k \in DOMAIN fc |-> IF fc[k] > 0 /\ fc[k] >= idx THEN fc[k] - 1 ELSE fc[k]]

\* the loop left instead of continued
skip_mesh_break == "done"

\* lines 326, 342, 350, 382: continue, the rest of the loop body is skipped
skip_mesh == "next"

MeshIdle ==
    /\ slots' = <<>> /\ faces' = <<>> /\ slots0' = <<>> /\ faces0' = <<>>
    /\ duplicates' = <<>> /\ material_mapping' = <<>> /\ materials_to_remove' = {}
    /\ to_pop' = <<>> /\ popped' = <<>> /\ face_i' = 0 /\ rewrites' = 0
    /\ mode_sets' = 0 /\ removed0' = removed_count

CmpIdle == m1 = <<>> /\ m2 = <<>> /\ res = <<>>
GrpIdle == mats = <<>> /\ groups = <<>> /\ gpc = "idle"
OpIdle ==
    /\ selected = <<>> /\ obj_i = 0 /\ pc = "idle" /\ mode = "OBJECT" /\ mode0 = "OBJECT"
    /\ slots = <<>> /\ faces = <<>> /\ slots0 = <<>> /\ faces0 = <<>>
    /\ duplicates = <<>> /\ material_mapping = <<>> /\ materials_to_remove = {}
    /\ to_pop = <<>> /\ popped = <<>> /\ face_i = 0 /\ rewrites = 0 /\ mode_sets = 0
    /\ removed0 = 0 /\ removed_count = 0 /\ processed_objects = 0 /\ result = ""

\* the host before the operator is called: some objects selected, some mode
InitOp ==
    /\ selected \in SeqsUpTo(ObjectTypes, MaxObjects)
    /\ mode \in Modes
    /\ mode0 = mode
    /\ obj_i = 0 /\ pc = "start"
    /\ slots = <<>> /\ faces = <<>> /\ slots0 = <<>> /\ faces0 = <<>>
    /\ duplicates = <<>> /\ material_mapping = <<>> /\ materials_to_remove = {}
    /\ to_pop = <<>> /\ popped = <<>> /\ face_i = 0 /\ rewrites = 0 /\ mode_sets = 0
    /\ removed0 = 0 /\ removed_count = 0 /\ processed_objects = 0 /\ result = ""

\* lines 281-287
poll == Len(selected) > 0

\* lines 294-311: the checks before the loop
Begin ==
    /\ pc = "start"
    /\ poll
    /\ IF selected = <<>> \/ ~(\E n \in DOMAIN selected : selected[n] = "MESH")
       THEN pc' = "done" /\ result' = "CANCELLED"
       ELSE pc' = "loop" /\ result' = ""
    /\ UNCHANGED <<selected, obj_i, mode, mode0, slots, faces, slots0, faces0, duplicates,
                   material_mapping, materials_to_remove, to_pop, popped, face_i,
                   rewrites, mode_sets, removed0, removed_count, processed_objects>>
    /\ UNCHANGED <<cmpvars, grpvars>>

\* lines 314-318: an object that is not a mesh is skipped
SkipNonMesh ==
    /\ pc = "loop"
    /\ obj_i < Len(selected)
    /\ At(selected, obj_i) # "MESH"
    /\ obj_i' = obj_i + 1
    /\ UNCHANGED <<selected, pc, mode, mode0, slots, faces, slots0, faces0, duplicates,
                   material_mapping, materials_to_remove, to_pop, popped, face_i,
                   rewrites, mode_sets, removed0, removed_count, processed_objects, result>>
    /\ UNCHANGED <<cmpvars, grpvars>>

\* lines 320-322: the next mesh is taken up; its slot list and faces are
\* whatever the scene holds for it
ReadMesh ==
    /\ pc = "loop"
    /\ obj_i < Len(selected)
    /\ At(selected, obj_i) = "MESH"
    /\ processed_objects' = processed_objects + 1
    /\ \E sl \in SlotLists(Len(selected)) : \E fc \in FaceLists(sl, Len(selected)) :
          /\ slots' = sl /\ slots0' = sl
          /\ faces' = fc /\ faces0' = fc
    /\ removed0' = removed_count
    /\ pc' = "filter"
    /\ UNCHANGED <<selected, obj_i, mode, mode0, duplicates, material_mapping,
                   materials_to_remove, to_pop, popped, face_i, rewrites, mode_sets,
                   removed_count, result>>
    /\ UNCHANGED <<cmpvars, grpvars>>

\* lines 324-342: no slots, or fewer than two materials in them
CheckMaterials ==
    /\ pc = "filter"
    /\ pc' = IF slots = <<>> \/ Len(non_none(slots)) < 2 THEN skip_mesh ELSE "find"
    /\ UNCHANGED <<selected, obj_i, mode, mode0, slots, faces, slots0, faces0, duplicates,
                   material_mapping, materials_to_remove, to_pop, popped, face_i,
                   rewrites, mode_sets, removed0, removed_count, processed_objects, result>>
    /\ UNCHANGED <<cmpvars, grpvars>>

\* lines 346-350
FindDuplicates ==
    /\ pc = "find"
    /\ duplicates' = find_duplicate_materials(non_none(slots))
    /\ pc' = IF duplicates' = <<>> THEN skip_mesh ELSE "map"
    /\ UNCHANGED <<selected, obj_i, mode, mode0, slots, faces, slots0, faces0,
                   material_mapping, materials_to_remove, to_pop, popped, face_i,
                   rewrites, mode_sets, removed0, removed_count, processed_objects, result>>
    /\ UNCHANGED <<cmpvars, grpvars>>

\* lines 355-382
BuildMapping ==
    /\ pc = "map"
    /\ LET st == build_mapping(slots, duplicates)
       IN  /\ material_mapping' = st[1]
           /\ materials_to_remove' = st[2]
           /\ pc' = IF DOMAIN st[1] = {} THEN skip_mesh ELSE "edit"
    /\ UNCHANGED <<selected, obj_i, mode, mode0, slots, faces, slots0, faces0, duplicates,
                   to_pop, popped, face_i, rewrites, mode_sets, removed0, removed_count,
                   processed_objects, result>>
    /\ UNCHANGED <<cmpvars, grpvars>>

\* lines 385-392: bpy.ops.object.mode_set(mode='EDIT')
EnterEditMode ==
    /\ pc = "edit"
    /\ mode' = "EDIT"
    /\ mode_sets' = mode_sets + 1
    /\ face_i' = 0
    /\ pc' = "faces"
    /\ UNCHANGED <<selected, obj_i, mode0, slots, faces, slots0, faces0, duplicates,
                   material_mapping, materials_to_remove, to_pop, popped, rewrites,
                   removed0, removed_count, processed_objects, result>>
    /\ UNCHANGED <<cmpvars, grpvars>>

\* lines 395-397: one turn of the loop over bm.faces
RewriteFace ==
    /\ pc = "faces"
    /\ face_i < Len(faces)
    /\ faces' = [faces EXCEPT ![face_i + 1] = rewrite_index(material_mapping, @)]
    /\ face_i' = face_i + 1
    /\ rewrites' = rewrites + 1
    /\ UNCHANGED <<selected, obj_i, pc, mode, mode0, slots, slots0, faces0, duplicates,
                   material_mapping, materials_to_remove, to_pop, popped, mode_sets,
                   removed0, removed_count, processed_objects, result>>
    /\ UNCHANGED <<cmpvars, grpvars>>

\* lines 400-404: bpy.ops.object.mode_set(mode='OBJECT'), then the indices
\* to remove are sorted, highest first
LeaveEditMode ==
    /\ pc = "faces"
    /\ face_i = Len(faces)
    /\ mode' = "OBJECT"
    /\ mode_sets' = mode_sets + 1
    /\ to_pop' = sorted_reverse(materials_to_remove)
    /\ pc' = "pop"
    /\ UNCHANGED <<selected, obj_i, mode0, slots, faces, slots0, faces0, duplicates,
                   material_mapping, materials_to_remove, popped, face_i, rewrites,
                   removed0, removed_count, processed_objects, result>>
    /\ UNCHANGED <<cmpvars, grpvars>>

\* lines 405-408: one turn of the loop over material_indices_to_remove
PopSlot ==
    /\ pc = "pop"
    /\ to_pop # <<>>
    /\ LET idx == Head(to_pop)
       IN  IF idx < Len(slots)
           THEN /\ slots' = materials_pop(slots, idx)
                /\ faces' = material_index_remove(faces, idx)
                /\ popped' = Append(popped, idx)
                /\ removed_count' = removed_count + 1
           ELSE UNCHANGED <<slots, faces, popped, removed_count>>
    /\ to_pop' = Tail(to_pop)
    /\ UNCHANGED <<selected, obj_i, pc, mode, mode0, slots0, faces0, duplicates,
                   material_mapping, materials_to_remove, face_i, rewrites, mode_sets,
                   removed0, processed_objects, result>>
    /\ UNCHANGED <<cmpvars, grpvars>>

\* line 405: the loop over material_indices_to_remove is exhausted
EndPops ==
    /\ pc = "pop"
    /\ to_pop = <<>>
    /\ pc' = "next"
    /\ UNCHANGED <<selected, obj_i, mode, mode0, slots, faces, slots0, faces0, duplicates,
                   material_mapping, materials_to_remove, to_pop, popped, face_i,
                   rewrites, mode_sets, removed0, removed_count, processed_objects, result>>
    /\ UNCHANGED <<cmpvars, grpvars>>

\* line 314: the loop turns to the next selected object; what the body kept
\* for the mesh it has finished is not read again
Advance ==
    /\ pc = "next"
    /\ obj_i' = obj_i + 1
    /\ pc' = "loop"
    /\ MeshIdle
    /\ UNCHANGED <<selected, mode, mode0, removed_count, processed_objects, result>>
    /\ UNCHANGED <<cmpvars, grpvars>>

\* lines 410-415: the loop is over
Finish ==
    /\ pc = "loop"
    /\ obj_i = Len(selected)
    /\ pc' = "done"
    /\ result' = "FINISHED"
    /\ UNCHANGED <<selected, obj_i, mode, mode0, slots, faces, slots0, faces0, duplicates,
                   material_mapping, materials_to_remove, to_pop, popped, face_i,
                   rewrites, mode_sets, removed0, removed_count, processed_objects>>
    /\ UNCHANGED <<cmpvars, grpvars>>

OpNext ==
    \/ Begin \/ SkipNonMesh \/ ReadMesh \/ CheckMaterials \/ FindDuplicates
    \/ BuildMapping \/ EnterEditMode \/ RewriteFace \/ LeaveEditMode \/ PopSlot
    \/ EndPops \/ Advance \/ Finish

----------------------------------------------------------------------------
(* Specifications *)

\* the operator
Init == InitOp /\ CmpIdle /\ GrpIdle
Next == OpNext
Spec == Init /\ [][Next]_vars

\* the comparators on their own
CmpInit == InitCmp /\ GrpIdle /\ OpIdle
SpecCmp == CmpInit /\ [][CmpNext]_vars

\* the grouper on its own
GroupInit == InitGroup /\ CmpIdle /\ OpIdle
GroupNext == CallFindDuplicates
SpecGroup == GroupInit /\ [][GroupNext]_vars

----------------------------------------------------------------------------
(* Properties *)

Range(f) == { f[x] : x \in DOMAIN f }

\* the materials a material was classified a duplicate of
CanonicalsOf(mat) ==
    { duplicates[n][1] : n \in { k \in DOMAIN duplicates : mat \in Range(duplicates[k][2]) } }

\* C1: when the pass over a mesh is over, every face's index is in range of
\* the final slot list and resolves to the material it resolved to when the
\* mesh was read, or to the canonical that material was a duplicate of.
C1_VisualEquivalence ==
    (pc = "next" /\ slots0 # <<>>) =>
        \A k \in DOMAIN faces :
            /\ faces[k] \in 0..(Len(slots) - 1)
            /\ \/ At(slots, faces[k]) = At(slots0, faces0[k])
               \/ At(slots, faces[k]) \in CanonicalsOf(At(slots0, faces0[k]))

\* a finished pass in which one face was rewritten to its canonical and
\* another, untouched by the mapping, moved down with its slot
C1_Witness ==
    /\ pc = "next" /\ popped # <<>>
    /\ \E k \in DOMAIN faces0 : faces0[k] \in DOMAIN material_mapping
    /\ \E k \in DOMAIN faces0 :
          faces0[k] \notin DOMAIN material_mapping /\ faces[k] # faces0[k]

\* C2: when the pass over a mesh is over, no two entries of the final slot
\* list are equal by compare_material_properties.
C2_NoEqualPairLeft ==
    pc = "next" =>
        \A i, j \in DOMAIN slots : i # j => ~materials_equal(slots[i], slots[j])

\* 1-based position of the first occurrence of mat in mats
FirstPos(mat) == CHOOSE n \in DOMAIN mats : mats[n] = mat /\ \A k \in 1..(n - 1) : mats[k] # mat

PairwiseEqualDistinct(l) ==
    \A i, j \in DOMAIN l : i # j => (l[i] # l[j] /\ materials_equal(l[i], l[j]))

\* C3: in every class of find_duplicate_materials' result each duplicate
\* stood after its canonical in the input and the duplicates are in input
\* order; a list of distinct, pairwise equal materials gives exactly one
\* class: the first material with all the others.
C3_LowestIndexCanonical ==
    gpc = "out" =>
        /\ \A n \in DOMAIN groups :
              LET ds == groups[n][2]
              IN  /\ ds # <<>>
                  /\ \A q \in DOMAIN ds : FirstPos(ds[q]) > FirstPos(groups[n][1])
                  /\ \A q, r \in DOMAIN ds : q < r => FirstPos(ds[q]) < FirstPos(ds[r])
        /\ (Len(mats) >= 2 /\ PairwiseEqualDistinct(mats))
              => groups = << <<mats[1], Tail(mats)>> >>

\* three distinct, pairwise equal materials were grouped
C3_Witness ==
    /\ gpc = "out" /\ Len(mats) = 3 /\ PairwiseEqualDistinct(mats)
    /\ Len(groups) = 1 /\ Len(groups[1][2]) = 2

\* both materials use nodes, both own a node tree, and every attribute
\* check of compare_material_properties passes
BothNodeShaded ==
    /\ ~IsNone(m1) /\ ~IsNone(m2) /\ m1.id # m2.id
    /\ m1.use_nodes /\ m2.use_nodes
    /\ ~m1.node_tree.none /\ ~m2.node_tree.none
    /\ ~basic_properties_differ(m1, m2)
    /\ ~surface_properties_differ(m1, m2)

CmpDone == res.done = {"materials", "trees"}

ScalarGaps ==
    IF IsNone(m1) \/ IsNone(m2) \/ m1.id = m2.id THEN {}
    ELSE LET a1 == [m1 EXCEPT !.id = m2.id]
         IN  (IF both(m1, m2, "blend_method") /\ both(m1, m2, "alpha_threshold")
                 /\ [a1 EXCEPT !.alpha_threshold = m2.alpha_threshold] = m2
              THEN {Abs(m1.alpha_threshold - m2.alpha_threshold)} ELSE {})
             \cup
             (IF both(m1, m2, "diffuse_color") /\ both(m1, m2, "metallic")
                 /\ [a1 EXCEPT !.metallic = m2.metallic] = m2
              THEN {Abs(m1.metallic - m2.metallic)} ELSE {})
             \cup
             (IF both(m1, m2, "diffuse_color") /\ both(m1, m2, "specular")
                 /\ [a1 EXCEPT !.specular = m2.specular] = m2
              THEN {Abs(m1.specular - m2.specular)} ELSE {})
             \cup
             (IF both(m1, m2, "diffuse_color") /\ both(m1, m2, "roughness")
                 /\ [a1 EXCEPT !.roughness = m2.roughness] = m2
              THEN {Abs(m1.roughness - m2.roughness)} ELSE {})
             \cup
             (IF both(m1, m2, "diffuse_color")
                 /\ Len(m1.diffuse_color) = Len(m2.diffuse_color)
              THEN { Abs(m1.diffuse_color[k] - m2.diffuse_color[k]) :
                       k \in { c \in DOMAIN m1.diffuse_color :
                                 [a1 EXCEPT !.diffuse_color[c] = m2.diffuse_color[c]] = m2 } }
              ELSE {})

\* C5 as stated: two materials that differ in one scalar attribute alone
\* are different when the gap is exactly 0.001 and equal when it is 0.0009.
C5_ExactToleranceDiffers ==
    "materials" \in res.done =>
        \A g \in ScalarGaps :
            /\ g = Tol => ~res.eq
            /\ g = Tol - 1 => res.eq

\* C5 amended: such materials are equal when the gap is exactly 0.001 (the
\* comparison is a strict >), as they are at 0.0009; they are different
\* only when the gap exceeds 0.001, as at 0.0011.
C5_StrictTolerance ==
    "materials" \in res.done =>
        \A g \in ScalarGaps :
            /\ g = Tol => res.eq
            /\ g = Tol - 1 => res.eq
            /\ g = Tol + 1 => ~res.eq
            /\ res.eq = (g <= Tol)

\* two materials exactly 0.001 apart in one scalar attribute, compared
C5_Witness ==
    /\ "materials" \in res.done
    /\ Tol \in ScalarGaps
    /\ m1.alpha_threshold # m2.alpha_threshold
    /\ res.eq

\* C6: compare_material_properties gives the same verdict with its
\* arguments exchanged.
C6_Symmetric ==
    "materials" \in res.done => res.eq = res.eq_rev

\* a pair with specular on one side only was compared in both orders
C6_Witness ==
    /\ "materials" \in res.done
    /\ ~IsNone(m1) /\ ~IsNone(m2)
    /\ hasattr(m1, "specular") /\ ~hasattr(m2, "specular")
    /\ ~res.eq /\ ~res.eq_rev

\* C7: wherever the operator leaves a mesh or returns, the host's mode is
\* the mode it had when the operator was called.
C7_ModeRestored ==
    (pc = "next" \/ pc = "done") => mode = mode0

FewMaterials(sl) == Len(non_none(sl)) < 2

\* C8: for a mesh with fewer than two non-empty slots the check of the
\* materials goes straight to the next object with no mode_set call, the
\* slot list, the faces, the mode and removed_count as they were; from
\* there the loop turns to the next selected object, the operator not having
\* returned.
C8_FewMaterialsStep ==
    /\ (pc = "filter" /\ FewMaterials(slots)) =>
          /\ pc' = "next"
          /\ slots' = slots0 /\ faces' = faces0 /\ mode' = mode
          /\ mode_sets' = 0 /\ removed_count' = removed0 /\ result' = ""
    /\ (pc = "next" /\ FewMaterials(slots0)) =>
          /\ pc' = "loop" /\ obj_i' = obj_i + 1
          /\ mode' = mode /\ removed_count' = removed0 /\ result' = ""

C8_FewMaterialsNoOp == [][C8_FewMaterialsStep]_vars

\* a mesh with one material and one empty slot has been passed over, as the
\* first of two selected objects
C8_Witness ==
    /\ pc = "next" /\ obj_i + 1 < Len(selected)
    /\ Len(slots0) = 2 /\ Len(non_none(slots0)) = 1 /\ faces0 # <<>>
    /\ slots = slots0 /\ faces = faces0 /\ mode_sets = 0

\* sl without the entries at the 0-based positions in S
RECURSIVE DeletePositions(_, _)
DeletePositions(sl, S) ==
    IF sl = <<>> THEN <<>>
    ELSE DeletePositions(SubSeq(sl, 1, Len(sl) - 1), S)
         \o (IF (Len(sl) - 1) \in S THEN <<>> ELSE <<sl[Len(sl)]>>)

\* C9: no slot is removed before every face has been visited by the
\* rewrite; slots are removed in strictly descending index order; after
\* each removal the slot list is the original list without the original
\* positions removed so far, and at the end without exactly the positions
\* in materials_to_remove.
C9_Ordering ==
    /\ popped # <<>> => (rewrites = Len(faces0) /\ pc \in {"pop", "next"})
    /\ \A q \in 1..(Len(popped) - 1) : popped[q] > popped[q + 1]
    /\ pc \in {"pop", "next"} => slots = DeletePositions(slots0, Range(popped))
    /\ (pc = "next" /\ mode_sets > 0) =>
          /\ Range(popped) = materials_to_remove
          /\ slots = DeletePositions(slots0, materials_to_remove)

\* a pass that rewrote two faces and then removed two slots
C9_Witness ==
    /\ pc = "next" /\ Len(popped) = 2 /\ rewrites = 2
    /\ \A k \in DOMAIN faces0 : faces0[k] \in materials_to_remove

\* C10: in the result of find_duplicate_materials no material is both a
\* key and a duplicate, none is a key twice, and none appears twice in the
\* duplicate lists; in material_mapping no slot index is both a key and a
\* value, and no canonical's slot is among the slots to remove.
C10_Disjoint ==
    /\ \A n, k \in DOMAIN duplicates :
          /\ duplicates[n][1] \notin Range(duplicates[k][2])
          /\ n # k => duplicates[n][1] # duplicates[k][1]
          /\ \A q \in DOMAIN duplicates[n][2], r \in DOMAIN duplicates[k][2] :
                (n # k \/ q # r) => duplicates[n][2][q] # duplicates[k][2][r]
    /\ DOMAIN material_mapping \cap Range(material_mapping) = {}
    /\ DOMAIN material_mapping = materials_to_remove
    /\ \A n \in DOMAIN duplicates :
          first_index(slots0, duplicates[n][1]) \notin materials_to_remove

\* a mapping was built for a slot list that holds one material twice
C10_Witness ==
    /\ DOMAIN material_mapping # {}
    /\ \E i, j \in DOMAIN slots0 : i # j /\ slots0[i] = slots0[j] /\ slots0[i] # 0

====
